---- MODULE Spec2Model ----
(***************************************************************************)
(* convert_cbz (main.go): the batch conversion pipeline.                   *)
(*                                                                         *)
(*   Spec         the worker pool: processConcurrently, worker,            *)
(*                processWorkItem, convertToCBZ, printFinalStats           *)
(*   SpecFair     the pool under a scheduler that runs what can run        *)
(*   SpecRerun    the pool, and the tool started a second time over the    *)
(*                output directory the first run left                      *)
(*   SpecCollect  collectRecursiveWorkItems and collectDirectWorkItems     *)
(*   SpecWalk     getAllFiles and getSmartFilteredFiles, file by file        *)
(*   SpecMain     main from the parsed flags to the start of the workers     *)
(*                                                                         *)
(* Strings the code takes apart (file names, detected content types) are   *)
(* sequences of one-character strings; paths the code only compares or     *)
(* joins are plain strings.                                                *)
(***************************************************************************)
EXTENDS Integers, Sequences, FiniteSets, TLC

\* ------------------------------------------------------------------ bounds

\* Longest job list handed to the pool.
MaxJobs == 2

\* Largest thread count the pool is started with.
MaxThreads == 2

\* Longest list of -input arguments handed to a collector.
MaxRoots == 2

\* Largest runtime.NumCPU().
MaxCPU == 2

\* Largest magnitude of a -threads value.
MaxThreadsArg == 7

\* Most files under a source directory whose walk is followed file by file.
MaxFiles == 4

\* ----------------------------------------------------------------- strings

UpperChars == <<"A","B","C","D","E","F","G","H","I","J","K","L","M",
                "N","O","P","Q","R","S","T","U","V","W","X","Y","Z">>

LowerChars == <<"a","b","c","d","e","f","g","h","i","j","k","l","m",
                "n","o","p","q","r","s","t","u","v","w","x","y","z">>

\* strings.ToLower, one character.
ToLowerChar(c) ==
    IF \E i \in 1..Len(UpperChars) : UpperChars[i] = c
    THEN LowerChars[CHOOSE i \in 1..Len(UpperChars) : UpperChars[i] = c]
    ELSE c

\* strings.ToLower
ToLower(s) == [i \in 1..Len(s) |-> ToLowerChar(s[i])]

\* strings.Contains
StrContains(s, sub) ==
    \E i \in 0..(Len(s) - Len(sub)) : SubSeq(s, i + 1, i + Len(sub)) = sub

\* strings.HasPrefix
HasPrefix(s, prefix) ==
    /\ Len(s) >= Len(prefix)
    /\ SubSeq(s, 1, Len(prefix)) = prefix

\* filepath.Ext on a file name: the suffix from the last dot, "" without one.
Ext(name) ==
    IF \E i \in 1..Len(name) : name[i] = "."
    THEN LET i == CHOOSE k \in 1..Len(name) :
                      /\ name[k] = "."
                      /\ \A m \in (k + 1)..Len(name) : name[m] # "."
         IN  SubSeq(name, i, Len(name))
    ELSE <<>>

\* ------------------------------------------------------ content classifier

\* The first bytes of a file as isUsefulFile hands them to DetectContentType:
\* a 512-byte buffer, zero-filled past what Read returned. A file is
\* [kind, long]: what its bytes are and whether there are at least 512.
SniffBufferSize == 512

\* http.DetectContentType on that buffer. A signature at the start decides an
\* image or a video whatever follows; plain text is recognised only when no
\* byte of the buffer is binary, and the zero fill of a short file is.
DetectContentType(content) ==
    CASE content.kind = "jpeg" -> <<"i","m","a","g","e","/","j","p","e","g">>
      [] content.kind = "png"  -> <<"i","m","a","g","e","/","p","n","g">>
      [] content.kind = "mp4"  -> <<"v","i","d","e","o","/","m","p","4">>
      [] content.kind = "text" /\ content.long ->
             <<"t","e","x","t","/","p","l","a","i","n",";"," ",
               "c","h","a","r","s","e","t","=","u","t","f","-","8">>
      [] OTHER -> <<"a","p","p","l","i","c","a","t","i","o","n","/",
                    "o","c","t","e","t","-","s","t","r","e","a","m">>

systemFiles ==
    { <<".","d","s","_","s","t","o","r","e">>,
      <<"t","h","u","m","b","s",".","d","b">>,
      <<"d","e","s","k","t","o","p",".","i","n","i">>,
      <<".","d","i","r","e","c","t","o","r","y">>,
      <<"f","o","l","d","e","r",".","j","p","g">>,
      <<"a","l","b","u","m","a","r","t","s","m","a","l","l",".","j","p","g">>,
      <<".","p","i","c","a","s","a",".","i","n","i">> }

vcsPatterns ==
    { <<".","g","i","t">>, <<".","s","v","n">>, <<".","h","g">>,
      <<".","b","z","r">>,
      <<".","g","i","t","i","g","n","o","r","e">>,
      <<".","g","i","t","a","t","t","r","i","b","u","t","e","s">>,
      <<".","h","g","i","g","n","o","r","e">> }

idePatterns ==
    { <<".","v","s","c","o","d","e">>, <<".","i","d","e","a">>,
      <<".","s","u","b","l","i","m","e","-">>,
      <<"*",".","s","w","p">>, <<"*",".","s","w","o">>, <<"*","~">> }

\* shouldExcludeFile: an exact match of the lower-cased name with a system
\* file, or a VCS or IDE pattern occurring in it as a substring.
shouldExcludeFile(fileName) ==
    LET lower == ToLower(fileName)
    IN  \/ lower \in systemFiles
        \/ \E pattern \in vcsPatterns : StrContains(lower, pattern)
        \/ \E pattern \in idePatterns : StrContains(lower, pattern)

textExtensions ==
    { <<".","t","x","t">>, <<".","m","d">>, <<".","n","f","o">>,
      <<".","i","n","f","o">>, <<".","r","e","a","d","m","e">>,
      <<".","d","e","s","c","r","i","p","t","i","o","n">>,
      <<".","n","o","t","e","s">> }

videoExtensions ==
    { <<".","m","p","4">>, <<".","a","v","i">>, <<".","m","k","v">>,
      <<".","m","o","v">>, <<".","w","m","v">>, <<".","f","l","v">>,
      <<".","w","e","b","m">>, <<".","m","4","v">> }

usefulMimeTypes ==
    { <<"i","m","a","g","e","/">>, <<"t","e","x","t","/">>,
      <<"v","i","d","e","o","/">> }

\* isUsefulFile with the content sniffed before the extension is looked at.
isUsefulFileSniffFirst(file) ==
    LET ext == ToLower(Ext(file.name))
    IN  IF ~file.readable
        THEN [useful |-> FALSE, err |-> TRUE, opened |-> TRUE]
        ELSE IF \E prefix \in usefulMimeTypes :
                    HasPrefix(DetectContentType(file.content), prefix)
        THEN [useful |-> TRUE, err |-> FALSE, opened |-> TRUE]
        ELSE [useful |-> ext \in textExtensions \cup videoExtensions,
              err |-> FALSE, opened |-> TRUE]

\* isUsefulFile: [useful, err], and opened: os.Open was called on the file.
\* The extension decides first; otherwise the file is opened and sniffed,
\* and a file that cannot be opened or read is an error.
isUsefulFile(file) ==
    LET ext == ToLower(Ext(file.name))
    IN  IF ext \in textExtensions
        THEN [useful |-> TRUE, err |-> FALSE, opened |-> FALSE]
        ELSE IF ext \in videoExtensions
        THEN [useful |-> TRUE, err |-> FALSE, opened |-> FALSE]
        ELSE IF ~file.readable
        THEN [useful |-> FALSE, err |-> TRUE, opened |-> TRUE]
        ELSE [useful |-> \E prefix \in usefulMimeTypes :
                             HasPrefix(DetectContentType(file.content), prefix),
              err |-> FALSE, opened |-> TRUE]

\* ------------------------------------------------------------- file system

\* The source directories of a run, by absolute path. Each lists its
\* non-directory files in filepath.WalkDir's order (lexical by name inside
\* each directory); rank is the place of the file's full path in byte order,
\* which is what sort.Strings compares. walkErr: the walk reports an error
\* (a subdirectory that cannot be read).
SourceDirs == { "/m/a", "/n/a", "/m/b", "/m/c", "/m/long" }

jpegLong == [kind |-> "jpeg", long |-> TRUE]

textShort == [kind |-> "text", long |-> FALSE]

binaryShort == [kind |-> "binary", long |-> FALSE]

SourceTree(dir) ==
    CASE dir = "/m/a" ->
           [walkErr |-> FALSE,
            files |-> << [dir |-> dir, rel |-> ".DS_Store", rank |-> 1,
                          name |-> <<".","D","S","_","S","t","o","r","e">>,
                          content |-> binaryShort, readable |-> TRUE],
                         [dir |-> dir, rel |-> "ch/p1.jpg", rank |-> 3,
                          name |-> <<"p","1",".","j","p","g">>,
                          content |-> jpegLong, readable |-> TRUE],
                         [dir |-> dir, rel |-> "ch.txt", rank |-> 2,
                          name |-> <<"c","h",".","t","x","t">>,
                          content |-> textShort, readable |-> TRUE] >>]
      [] dir = "/n/a" ->
           [walkErr |-> FALSE,
            files |-> << [dir |-> dir, rel |-> "page1.jpg", rank |-> 1,
                          name |-> <<"p","a","g","e","1",".","j","p","g">>,
                          content |-> jpegLong, readable |-> TRUE],
                         [dir |-> dir, rel |-> "page2.jpg", rank |-> 2,
                          name |-> <<"p","a","g","e","2",".","j","p","g">>,
                          content |-> jpegLong, readable |-> FALSE] >>]
      [] dir = "/m/b" ->
           [walkErr |-> FALSE,
            files |-> << [dir |-> dir, rel |-> ".DS_Store", rank |-> 1,
                          name |-> <<".","D","S","_","S","t","o","r","e">>,
                          content |-> binaryShort, readable |-> TRUE] >>]
      [] dir = "/m/c" ->
           [walkErr |-> TRUE, files |-> <<>>]
      [] OTHER ->
           [walkErr |-> FALSE,
            files |-> << [dir |-> dir, rel |-> "p.jpg", rank |-> 1,
                          name |-> <<"p",".","j","p","g">>,
                          content |-> jpegLong, readable |-> TRUE] >>]

\* filepath.Base of a source directory.
Base(dir) ==
    CASE dir = "/m/a" -> "a"
      [] dir = "/n/a" -> "a"
      [] dir = "/m/b" -> "b"
      [] dir = "/m/c" -> "c"
      [] OTHER -> "long"

outputDir == "out"

\* filepath.Join(outputDir, folder+".cbz")
OutputPathOf(folder) == outputDir \o "/" \o folder \o ".cbz"

OutPaths == { OutputPathOf(Base(d)) : d \in SourceDirs }

\* os.Create fails on these paths whatever is there: the name "long" stands
\* for a folder name so long that name+".cbz" is no valid file name.
Uncreatable == { OutputPathOf("long") }

NoFile == [kind |-> "none"]

\* A file that was at the path before the run.
OldFile == [kind |-> "old"]

\* What os.Create leaves: an empty file, held open by job `owner`.
NewFile(owner) ==
    [kind |-> "cbz", owner |-> owner, entries |-> <<>>, closed |-> FALSE]

\* Two jobs wrote through their own descriptors to one file.
Garbled == [kind |-> "garbled"]

\* SortStrings left out: the list stays in the order of the walk.
WalkOrderKept(files) == files

\* sort.Strings on a list of file paths.
SortStrings(files) ==
    LET n == Len(files)
        before(i) == Cardinality({ j \in 1..n : files[j].rank < files[i].rank })
    IN  [k \in 1..n |-> files[CHOOSE i \in 1..n : before(i) = k - 1]]

\* getAllFiles: every non-directory file under dir, sorted.
getAllFiles(dir) ==
    LET tree == SourceTree(dir)
    IN  IF tree.walkErr
        THEN [files |-> <<>>, err |-> TRUE]
        ELSE [files |-> SortStrings(tree.files), err |-> FALSE]

\* smartIncludes that drops a file it cannot analyse.
smartIncludesFailClosed(file) ==
    /\ ~shouldExcludeFile(file.name)
    /\ ~isUsefulFile(file).err
    /\ isUsefulFile(file).useful

\* The decision getSmartFilteredFiles takes for one file of the walk.
smartIncludes(file) ==
    /\ ~shouldExcludeFile(file.name)
    /\ \/ isUsefulFile(file).err
       \/ isUsefulFile(file).useful

\* getSmartFilteredFiles: the included paths, sorted, and the number of
\* names appended to excludedFiles.
getSmartFilteredFiles(dir) ==
    LET tree == SourceTree(dir)
        includedFiles == SelectSeq(tree.files, smartIncludes)
        excludedFiles == SelectSeq(tree.files, LAMBDA f : ~smartIncludes(f))
    IN  IF tree.walkErr
        THEN [files |-> <<>>, excluded |-> 0, err |-> TRUE]
        ELSE [files |-> SortStrings(includedFiles),
              excluded |-> Len(excludedFiles), err |-> FALSE]

\* selectFiles without the emptiness test.
selectFilesAllowEmpty(sourceDir, dumbMode) ==
    LET all == getAllFiles(sourceDir)
        smart == getSmartFilteredFiles(sourceDir)
    IN  [files |-> IF dumbMode THEN all.files ELSE smart.files,
         excluded |-> IF dumbMode THEN 0 ELSE smart.excluded,
         err |-> IF dumbMode THEN all.err ELSE smart.err]

\* convertToCBZ up to the emptiness test: the files to archive, the excluded
\* count, and whether the call has already failed.
selectFiles(sourceDir, dumbMode) ==
    LET all == getAllFiles(sourceDir)
        smart == getSmartFilteredFiles(sourceDir)
        files == IF dumbMode THEN all.files ELSE smart.files
        err == IF dumbMode THEN all.err ELSE smart.err
    IN  [files |-> files,
         excluded |-> IF dumbMode THEN 0 ELSE smart.excluded,
         err |-> err \/ Len(files) = 0]

\* selectFiles for every source directory and mode of the model.
Selected ==
    [dir \in SourceDirs |-> [dumbMode \in BOOLEAN |-> selectFiles(dir, dumbMode)]]

\* filepath.Rel(baseDir, filePath) then filepath.ToSlash: the entry's name.
EntryName(file, baseDir) ==
    IF file.dir = baseDir THEN file.rel ELSE file.dir \o "/" \o file.rel

\* ------------------------------------------------------------------- paths

\* A path the collector resolves is [abs, parts]: whether it starts at the
\* root, and its components ("." and ".." among them).
Front(q) == SubSeq(q, 1, Len(q) - 1)

\* filepath.Clean, component by component: "." is dropped, ".." removes the
\* component before it (at the root it is dropped; leading a relative path
\* it stays).
RECURSIVE cleanParts(_, _, _)
cleanParts(acc, rest, abs) ==
    IF rest = <<>> THEN acc
    ELSE LET c == Head(rest)
             next == CASE c = "." -> acc
                       [] c = ".." /\ acc # <<>> /\ acc[Len(acc)] # ".." -> Front(acc)
                       [] c = ".." /\ abs -> acc
                       [] OTHER -> Append(acc, c)
         IN  cleanParts(next, Tail(rest), abs)

\* filepath.Clean
Clean(path) == [abs |-> path.abs, parts |-> cleanParts(<<>>, path.parts, path.abs)]

\* filepath.Join(dir, name)
Join(dir, name) == Clean([abs |-> dir.abs, parts |-> Append(dir.parts, name)])

\* The working directory of the process.
cwd == [abs |-> TRUE, parts |-> <<"m">>]

\* filepath.Abs: [path, err]. A rooted path is cleaned; any other is joined
\* to the working directory, and fails when os.Getwd fails.
Abs(path, getwdFails) ==
    IF path.abs THEN [path |-> Clean(path), err |-> FALSE]
    ELSE IF getwdFails THEN [path |-> path, err |-> TRUE]
    ELSE [path |-> Clean([abs |-> TRUE, parts |-> cwd.parts \o path.parts]),
          err |-> FALSE]

RECURSIVE joinParts(_)
joinParts(parts) ==
    IF parts = <<>> THEN ""
    ELSE IF Len(parts) = 1 THEN parts[1]
    ELSE parts[1] \o "/" \o joinParts(Tail(parts))

\* The path as the string the program holds.
PathString(path) ==
    IF path.abs THEN "/" \o joinParts(path.parts)
    ELSE IF path.parts = <<>> THEN "."
    ELSE joinParts(path.parts)

\* filepath.Base of a cleaned absolute path.
PathBase(path) ==
    IF path.parts = <<>> THEN "/" ELSE path.parts[Len(path.parts)]

\* The directories and the plain files of the machine, by location. Nothing
\* under /p can be looked up, and /p cannot be listed.
FsDirs ==
    { <<>>, <<"m">>, <<"n">>, <<"p">>, <<"m","a">>, <<"m","a","ch">>,
      <<"m","b">>, <<"m","c">>, <<"m","long">>, <<"n","a">> }

FsFiles == { <<"m","f.txt">> }

NoAccess == { <<"p">> }

\* Where the kernel finds a path: relative paths start at the working
\* directory. (The working directory is there even when os.Getwd fails.)
Locate(path) ==
    IF path.abs THEN Clean(path).parts
    ELSE cleanParts(<<>>, cwd.parts \o path.parts, TRUE)

Below(loc, dir) ==
    /\ Len(loc) > Len(dir)
    /\ SubSeq(loc, 1, Len(dir)) = dir

\* os.Stat(path): "dir", "file", "notexist" (os.IsNotExist(err)), or "error"
\* (any other error, with a nil FileInfo).
Stat(path) ==
    LET loc == Locate(path)
    IN  CASE \E d \in NoAccess : Below(loc, d) -> "error"
          [] loc \in FsDirs -> "dir"
          [] loc \in FsFiles -> "file"
          [] OTHER -> "notexist"

\* Byte order of the directory names of the machine (sort.Strings).
NameOrder == <<"a", "b", "c", "ch", "long", "m", "n", "p">>

NameRank(name) == CHOOSE i \in 1..Len(NameOrder) : NameOrder[i] = name

\* The names in a set, as a sorted list.
RECURSIVE sortedNames(_)
sortedNames(names) ==
    IF names = {} THEN <<>>
    ELSE LET first == CHOOSE x \in names :
                          \A y \in names : NameRank(x) <= NameRank(y)
         IN  <<first>> \o sortedNames(names \ {first})

\* getFolders: [folders, err]. os.ReadDir fails on what is no directory and
\* on a directory that cannot be read; the directory entries, sorted.
getFolders(dir) ==
    LET loc == Locate(dir)
    IN  IF Stat(dir) # "dir" \/ loc \in NoAccess
        THEN [folders |-> <<>>, err |-> TRUE]
        ELSE [folders |-> sortedNames({ d[Len(d)] : d \in { e \in FsDirs :
                              Len(e) = Len(loc) + 1 /\ Below(e, loc) } }),
              err |-> FALSE]

\* ------------------------------------------------------------------- state

VARIABLES
    workItems,   \* the job list handed to processConcurrently
    numThreads,  \* the (clamped) thread count
    fs,          \* the output directory: path -> what is at the path
    mainpc,      \* main: "start", "wait" (in wg.Wait), "print", "locked", "done"
    workChan,    \* the buffered channel: job indices in flight
    chanClosed,  \* close(workChan) has run
    feedIdx,     \* the feeder's loop index: the next job to send
    wg,          \* the wait group's counter
    wpc,         \* each worker's position
    witem,       \* each worker's current job index (0: none)
    wcount,      \* each worker's nonImageCount, as convertToCBZ returned it
    wload,       \* each worker's load of the counters under the lock (<<>>: none)
    stats,       \* ConversionStats
    mu,          \* stats.mu is locked
    snapshot,    \* what printFinalStats read (<<>> before it ran)
    taken,       \* per job: how many times a worker received it
    converted,   \* per job: how many times convertToCBZ was called for it
    outcome,     \* per job: the outcomes recorded for it, in order
    run,         \* which run of the tool over the job list this is (1, 2)
    prevOutcome, \* per job: the outcomes the run before recorded (run 2)
    fsStart,     \* the output directory as it was when this run started
    inputPaths,  \* collector: the -input arguments
    recursive,   \* collector: the -recursive flag
    dumbArg,     \* collector: the -dumb flag
    getwdFails,  \* collector: os.Getwd fails in this process
    cidx,        \* collector: the loop index over inputPaths
    seenPaths,   \* collector: the keys of seenPaths
    cpc,         \* collector: "off", "loop", "returned", "panic"
    threadsArg,  \* main: the -threads value as flag.Parse left it
    numCPU,      \* main: runtime.NumCPU()
    walkTree,    \* walk: the non-directory files under dir, in WalkDir's order
    walkDumb,    \* walk: dumb mode (getAllFiles), else getSmartFilteredFiles
    walkErrAt,   \* walk: the visit at which WalkDir reports an error (0: none)
    walkIdx,     \* walk: the next visit
    walkIncluded, \* walk: allFiles / includedFiles
    walkExcluded, \* walk: excludedFiles (file names)
    walkOpened,  \* walk: the files isUsefulFile called os.Open on
    walkpc       \* walk: "off", "walk", "returned", "failed"

vars == << workItems, numThreads, fs, mainpc, workChan, chanClosed, feedIdx,
           wg, wpc, witem, wcount, wload, stats, mu, snapshot, taken,
           converted, outcome, run, prevOutcome, fsStart, inputPaths,
           recursive, dumbArg, getwdFails, cidx, seenPaths, cpc, threadsArg,
           numCPU, walkTree, walkDumb, walkErrAt, walkIdx, walkIncluded,
           walkExcluded, walkOpened, walkpc >>

\* What the pool never touches.
runVars == << run, prevOutcome, fsStart >>

collectVars == << inputPaths, recursive, dumbArg, getwdFails, cidx, seenPaths,
                 cpc >>

mainVars == << threadsArg, numCPU >>

walkVars == << walkTree, walkDumb, walkErrAt, walkIdx, walkIncluded,
              walkExcluded, walkOpened, walkpc >>

Workers == 1..numThreads

Jobs == 1..Len(workItems)

\* The WorkItem a collector builds for a source directory.
WorkItemOf(dir, dumbMode) ==
    [FolderName |-> Base(dir), SourcePath |-> dir,
     OutputPath |-> OutputPathOf(Base(dir)), DumbMode |-> dumbMode]

\* Sequences of 1..n pairwise-distinct source directories.
DirLists(n) ==
    UNION { { s \in [1..k -> SourceDirs] :
                \A i, j \in 1..k : i # j => s[i] # s[j] } : k \in 1..n }

\* Exists with the test lost: the skip branch is never taken.
ExistsNever(path) == FALSE

\* os.Stat(path) returned no error.
Exists(path) == fs[path].kind # "none"

\* NewStats that leaves Total at its zero value: &ConversionStats{}
NewStatsNoTotal(total) ==
    [Total |-> 0, Success |-> 0, Errors |-> 0, Skipped |-> 0,
     NonImageFiles |-> 0]

\* &ConversionStats{Total: len(workItems)}
NewStats(total) ==
    [Total |-> total, Success |-> 0, Errors |-> 0, Skipped |-> 0,
     NonImageFiles |-> 0]

\* No walk of a source directory is under way.
WalkOff ==
    /\ walkTree = <<>>
    /\ walkDumb = FALSE
    /\ walkErrAt = 0
    /\ walkIdx = 0
    /\ walkIncluded = <<>>
    /\ walkExcluded = <<>>
    /\ walkOpened = {}
    /\ walkpc = "off"

\* The job lists of a run: any list of distinct source directories, all in
\* one mode. Files that were in the output directory before the run are at
\* the output paths of the list's jobs (any other file is never looked at).
Init ==
    /\ numThreads \in 1..MaxThreads
    /\ \E dirs \in DirLists(MaxJobs), dumbMode \in BOOLEAN :
         workItems = [i \in 1..Len(dirs) |-> WorkItemOf(dirs[i], dumbMode)]
    /\ \E old \in SUBSET ({ workItems[i].OutputPath : i \in Jobs } \ Uncreatable) :
         fs = [p \in OutPaths |-> IF p \in old THEN OldFile ELSE NoFile]
    /\ mainpc = "start"
    /\ workChan = <<>>
    /\ chanClosed = FALSE
    /\ feedIdx = 1
    /\ wg = 0
    /\ wpc = [w \in Workers |-> "idle"]
    /\ witem = [w \in Workers |-> 0]
    /\ wcount = [w \in Workers |-> 0]
    /\ wload = [w \in Workers |-> <<>>]
    /\ stats = NewStats(Len(workItems))
    /\ mu = FALSE
    /\ snapshot = <<>>
    /\ taken = [j \in Jobs |-> 0]
    /\ converted = [j \in Jobs |-> 0]
    /\ outcome = [j \in Jobs |-> <<>>]
    /\ run = 1
    /\ prevOutcome = [j \in Jobs |-> <<>>]
    /\ fsStart = fs
    /\ inputPaths = <<>>
    /\ recursive = FALSE
    /\ dumbArg = FALSE
    /\ getwdFails = FALSE
    /\ cidx = 0
    /\ seenPaths = {}
    /\ cpc = "off"
    /\ threadsArg = numThreads
    /\ numCPU = MaxCPU
    /\ WalkOff

\* ------------------------------------------------------ processConcurrently

\* processConcurrently up to wg.Wait: the channel is made, every worker is
\* started with wg.Add(1) before it, and the feeder is started.
StartPool ==
    /\ mainpc = "start"
    /\ mainpc' = "wait"
    /\ wg' = numThreads
    /\ wpc' = [w \in Workers |-> "recv"]
    /\ UNCHANGED << workItems, numThreads, fs, workChan, chanClosed, feedIdx,
                    witem, wcount, wload, stats, mu, snapshot, taken, converted,
                    outcome,
                    runVars, collectVars, mainVars, walkVars >>

\* FeederSend on a channel without a capacity.
FeederSendUnbounded ==
    /\ mainpc # "start"
    /\ feedIdx <= Len(workItems)
    /\ workChan' = Append(workChan, feedIdx)
    /\ feedIdx' = feedIdx + 1
    /\ UNCHANGED << workItems, numThreads, fs, mainpc, chanClosed, wg, wpc,
                    witem, wcount, wload, stats, mu, snapshot, taken, converted,
                    outcome,
                    runVars, collectVars, mainVars, walkVars >>

\* The feeder's `workChan <- item`: blocks while the buffer is full.
FeederSend ==
    /\ mainpc # "start"
    /\ feedIdx <= Len(workItems)
    /\ Len(workChan) < numThreads
    /\ workChan' = Append(workChan, feedIdx)
    /\ feedIdx' = feedIdx + 1
    /\ UNCHANGED << workItems, numThreads, fs, mainpc, chanClosed, wg, wpc,
                    witem, wcount, wload, stats, mu, snapshot, taken, converted,
                    outcome,
                    runVars, collectVars, mainVars, walkVars >>

\* FeederClose without the close: the feeder returns, the channel stays open.
FeederCloseForgotten ==
    /\ mainpc # "start"
    /\ feedIdx = Len(workItems) + 1
    /\ feedIdx' = feedIdx + 1
    /\ UNCHANGED << workItems, numThreads, fs, mainpc, workChan, chanClosed,
                    wg, wpc, witem, wcount, wload, stats, mu, snapshot, taken,
                    converted, outcome, runVars, collectVars, mainVars,
                    walkVars >>

\* The feeder's deferred close(workChan), after the last send.
FeederClose ==
    /\ mainpc # "start"
    /\ feedIdx > Len(workItems)
    /\ ~chanClosed
    /\ chanClosed' = TRUE
    /\ UNCHANGED << workItems, numThreads, fs, mainpc, workChan, feedIdx, wg,
                    wpc, witem, wcount, wload, stats, mu, snapshot, taken, converted,
                    outcome,
                    runVars, collectVars, mainVars, walkVars >>

\* WorkerRecv reading the head of the channel without taking it off.
WorkerRecvPeek(w) ==
    /\ wpc[w] = "recv"
    /\ workChan # <<>>
    /\ witem' = [witem EXCEPT ![w] = Head(workChan)]
    /\ taken' = [taken EXCEPT ![Head(workChan)] = @ + 1]
    /\ wpc' = [wpc EXCEPT ![w] = "stat"]
    /\ UNCHANGED << workItems, numThreads, fs, mainpc, workChan, chanClosed,
                    feedIdx, wg, wcount, wload, stats, mu, snapshot, converted,
                    outcome, runVars, collectVars, mainVars, walkVars >>

\* worker: `for item := range workChan` receives an item.
WorkerRecv(w) ==
    /\ wpc[w] = "recv"
    /\ workChan # <<>>
    /\ witem' = [witem EXCEPT ![w] = Head(workChan)]
    /\ workChan' = Tail(workChan)
    /\ taken' = [taken EXCEPT ![Head(workChan)] = @ + 1]
    /\ wpc' = [wpc EXCEPT ![w] = "stat"]
    /\ UNCHANGED << workItems, numThreads, fs, mainpc, chanClosed, feedIdx,
                    wg, wcount, wload, stats, mu, snapshot, converted, outcome,
                    runVars, collectVars, mainVars, walkVars >>

\* worker: the range loop ends on a closed, empty channel; deferred wg.Done.
WorkerExit(w) ==
    /\ wpc[w] = "recv"
    /\ workChan = <<>>
    /\ chanClosed
    /\ wpc' = [wpc EXCEPT ![w] = "exited"]
    /\ wg' = wg - 1
    /\ UNCHANGED << workItems, numThreads, fs, mainpc, workChan, chanClosed,
                    feedIdx, witem, wcount, wload, stats, mu, snapshot, taken,
                    converted, outcome,
                    runVars, collectVars, mainVars, walkVars >>

\* processWorkItem: os.Stat(item.OutputPath); err == nil is the skip branch.
StatOutput(w) ==
    /\ wpc[w] = "stat"
    /\ wpc' = [wpc EXCEPT ![w] =
                 IF Exists(workItems[witem[w]].OutputPath)
                 THEN "skip" ELSE "convert"]
    /\ UNCHANGED << workItems, numThreads, fs, mainpc, workChan, chanClosed,
                    feedIdx, wg, witem, wcount, wload, stats, mu, snapshot, taken,
                    converted, outcome,
                    runVars, collectVars, mainVars, walkVars >>

\* convertToCBZ up to the loop: the files are selected, and a failed walk or
\* an empty selection returns an error before anything is created; then
\* os.Create(cbzPath) creates the file or truncates the one that is there,
\* or fails.
OpenOutput(w) ==
    /\ wpc[w] = "convert"
    /\ LET item == workItems[witem[w]]
           path == item.OutputPath
       IN  IF Selected[item.SourcePath][item.DumbMode].err \/ path \in Uncreatable
           THEN /\ wpc' = [wpc EXCEPT ![w] = "failed"]
                /\ fs' = fs
           ELSE /\ wpc' = [wpc EXCEPT ![w] = "add"]
                /\ fs' = [fs EXCEPT ![path] = NewFile(witem[w])]
    /\ converted' = [converted EXCEPT ![witem[w]] = @ + 1]
    /\ UNCHANGED << workItems, numThreads, mainpc, workChan, chanClosed,
                    feedIdx, wg, witem, wcount, wload, stats, mu, snapshot, taken,
                    outcome,
                    runVars, collectVars, mainVars, walkVars >>

\* addFileToZip fails on a file it cannot open.
addFileFails(file) == ~file.readable

\* The entries the loop over includeFiles writes: up to the first file
\* addFileToZip fails on.
RECURSIVE writtenEntries(_, _)
writtenEntries(files, baseDir) ==
    IF files = <<>> \/ addFileFails(Head(files))
    THEN <<>>
    ELSE <<EntryName(Head(files), baseDir)>>
             \o writtenEntries(Tail(files), baseDir)

\* closeArchive with a cleanup that runs on every return: the file is removed.
closeArchiveRemove(path, owner, entries, complete) == NoFile

\* What convertToCBZ does to the output file once a call has returned: the
\* deferred zipWriter.Close and cbzFile.Close run on every return path, and
\* nothing removes the file.
closeArchive(path, owner, entries, complete) ==
    IF fs[path] = NewFile(owner)
    THEN [kind |-> "cbz", owner |-> owner, entries |-> entries,
          closed |-> TRUE, complete |-> complete]
    ELSE Garbled

\* convertToCBZ: the loop over includeFiles and the return. The first
\* addFileToZip error ends the call; otherwise excludedCount is returned.
AddFiles(w) ==
    /\ wpc[w] = "add"
    /\ LET item == workItems[witem[w]]
           sel == Selected[item.SourcePath][item.DumbMode]
           entries == writtenEntries(sel.files, item.SourcePath)
           complete == Len(entries) = Len(sel.files)
       IN  /\ fs' = [fs EXCEPT ![item.OutputPath] =
                       closeArchive(item.OutputPath, witem[w], entries, complete)]
           /\ wpc' = [wpc EXCEPT ![w] = IF complete THEN "ok" ELSE "failed"]
           /\ wcount' = [wcount EXCEPT ![w] = IF complete THEN sel.excluded ELSE 0]
    /\ UNCHANGED << workItems, numThreads, mainpc, workChan, chanClosed,
                    feedIdx, wg, witem, wload, stats, mu, snapshot, taken,
                    converted, outcome,
                    runVars, collectVars, mainVars, walkVars >>

\* LockStats that does not wait for the mutex: Lock returns at once.
LockStatsNoWait(w) ==
    /\ wpc[w] \in {"skip", "failed", "ok"}
    /\ mu' = TRUE
    /\ wload' = [wload EXCEPT ![w] = stats]
    /\ wpc' = [wpc EXCEPT ![w] =
                 CASE wpc[w] = "skip" -> "skip_locked"
                   [] wpc[w] = "failed" -> "failed_locked"
                   [] OTHER -> "ok_locked"]
    /\ UNCHANGED << workItems, numThreads, fs, mainpc, workChan, chanClosed,
                    feedIdx, wg, witem, wcount, stats, snapshot, taken,
                    converted, outcome, runVars, collectVars, mainVars,
                    walkVars >>

\* processWorkItem: stats.mu.Lock() on any of its three paths, and the load
\* of the counters that the increment after it starts with (x++ is a load,
\* an add and a store).
LockStats(w) ==
    /\ wpc[w] \in {"skip", "failed", "ok"}
    /\ ~mu
    /\ mu' = TRUE
    /\ wload' = [wload EXCEPT ![w] = stats]
    /\ wpc' = [wpc EXCEPT ![w] =
                 CASE wpc[w] = "skip" -> "skip_locked"
                   [] wpc[w] = "failed" -> "failed_locked"
                   [] OTHER -> "ok_locked"]
    /\ UNCHANGED << workItems, numThreads, fs, mainpc, workChan, chanClosed,
                    feedIdx, wg, witem, wcount, stats, snapshot, taken,
                    converted, outcome,
                    runVars, collectVars, mainVars, walkVars >>

\* The end of processWorkItem for worker w: unlock, return to the range loop.
finishItem(w, result) ==
    /\ mu' = FALSE
    /\ outcome' = [outcome EXCEPT ![witem[w]] = Append(@, result)]
    /\ witem' = [witem EXCEPT ![w] = 0]
    /\ wcount' = [wcount EXCEPT ![w] = 0]
    /\ wload' = [wload EXCEPT ![w] = <<>>]
    /\ wpc' = [wpc EXCEPT ![w] = "recv"]
    /\ UNCHANGED << workItems, numThreads, fs, mainpc, workChan, chanClosed,
                    feedIdx, wg, snapshot, taken, converted,
                    runVars, collectVars, mainVars, walkVars >>

\* RecordSkipped without the increment.
RecordSkippedNoCount(w) ==
    /\ wpc[w] = "skip_locked"
    /\ stats' = stats
    /\ finishItem(w, "skipped")

\* stats.Skipped++; stats.mu.Unlock(); return
RecordSkipped(w) ==
    /\ wpc[w] = "skip_locked"
    /\ stats' = [stats EXCEPT !.Skipped = wload[w].Skipped + 1]
    /\ finishItem(w, "skipped")

\* RecordError after which the worker gives up: it leaves its loop.
RecordErrorAbort(w) ==
    /\ wpc[w] = "failed_locked"
    /\ stats' = [stats EXCEPT !.Errors = wload[w].Errors + 1]
    /\ mu' = FALSE
    /\ outcome' = [outcome EXCEPT ![witem[w]] = Append(@, "error")]
    /\ witem' = [witem EXCEPT ![w] = 0]
    /\ wcount' = [wcount EXCEPT ![w] = 0]
    /\ wload' = [wload EXCEPT ![w] = <<>>]
    /\ wpc' = [wpc EXCEPT ![w] = "exited"]
    /\ wg' = wg - 1
    /\ UNCHANGED << workItems, numThreads, fs, mainpc, workChan, chanClosed,
                    feedIdx, snapshot, taken, converted, runVars, collectVars,
                    mainVars, walkVars >>

\* stats.Errors++; stats.mu.Unlock(); return
RecordError(w) ==
    /\ wpc[w] = "failed_locked"
    /\ stats' = [stats EXCEPT !.Errors = wload[w].Errors + 1]
    /\ finishItem(w, "error")

\* RecordSuccess without the accumulation of nonImageCount.
RecordSuccessNoExcluded(w) ==
    /\ wpc[w] = "ok_locked"
    /\ stats' = [stats EXCEPT !.Success = wload[w].Success + 1]
    /\ finishItem(w, "success")

\* stats.Success++; stats.NonImageFiles += nonImageCount; stats.mu.Unlock()
RecordSuccess(w) ==
    /\ wpc[w] = "ok_locked"
    /\ stats' = [stats EXCEPT !.Success = wload[w].Success + 1,
                              !.NonImageFiles = wload[w].NonImageFiles + wcount[w]]
    /\ finishItem(w, "success")

\* PoolReturn without the wait: processConcurrently returns at once.
PoolReturnNoWait ==
    /\ mainpc = "wait"
    /\ mainpc' = "print"
    /\ UNCHANGED << workItems, numThreads, fs, workChan, chanClosed, feedIdx,
                    wg, wpc, witem, wcount, wload, stats, mu, snapshot, taken,
                    converted, outcome, runVars, collectVars, mainVars, walkVars >>

\* wg.Wait() returns, and processConcurrently with it.
PoolReturn ==
    /\ mainpc = "wait"
    /\ wg = 0
    /\ mainpc' = "print"
    /\ UNCHANGED << workItems, numThreads, fs, workChan, chanClosed, feedIdx,
                    wg, wpc, witem, wcount, wload, stats, mu, snapshot, taken,
                    converted, outcome,
                    runVars, collectVars, mainVars, walkVars >>

\* printFinalStats: stats.mu.Lock()
PrintLock ==
    /\ mainpc = "print"
    /\ ~mu
    /\ mu' = TRUE
    /\ mainpc' = "locked"
    /\ UNCHANGED << workItems, numThreads, fs, workChan, chanClosed, feedIdx,
                    wg, wpc, witem, wcount, wload, stats, snapshot, taken, converted,
                    outcome,
                    runVars, collectVars, mainVars, walkVars >>

\* printFinalStats: the counters are read and logged; deferred Unlock.
PrintFinalStats ==
    /\ mainpc = "locked"
    /\ snapshot' = stats
    /\ mu' = FALSE
    /\ mainpc' = "done"
    /\ UNCHANGED << workItems, numThreads, fs, workChan, chanClosed, feedIdx,
                    wg, wpc, witem, wcount, wload, stats, taken, converted, outcome,
                    runVars, collectVars, mainVars, walkVars >>

\* ----------------------------------------------------------------- re-run

\* The tool is started again on the same inputs, over the output directory
\* as the run before left it: the collector returns the same job list, and
\* main makes new stats and a new pool (with any thread count).
Rerun ==
    /\ mainpc = "done"
    /\ run = 1
    /\ run' = 2
    /\ prevOutcome' = outcome
    /\ fsStart' = fs
    /\ numThreads' \in 1..MaxThreads
    /\ mainpc' = "start"
    /\ workChan' = <<>>
    /\ chanClosed' = FALSE
    /\ feedIdx' = 1
    /\ wg' = 0
    /\ wpc' = [w \in 1..numThreads' |-> "idle"]
    /\ witem' = [w \in 1..numThreads' |-> 0]
    /\ wcount' = [w \in 1..numThreads' |-> 0]
    /\ wload' = [w \in 1..numThreads' |-> <<>>]
    /\ stats' = NewStats(Len(workItems))
    /\ mu' = FALSE
    /\ snapshot' = <<>>
    /\ taken' = [j \in Jobs |-> 0]
    /\ converted' = [j \in Jobs |-> 0]
    /\ outcome' = [j \in Jobs |-> <<>>]
    /\ threadsArg' = numThreads'
    /\ UNCHANGED << workItems, fs, collectVars, numCPU, walkVars >>

\* -------------------------------------------------------------- collectors

\* The -input arguments tried: /m, ., /n, /m/a, a, /m/b/../a, /n/a,
\* /m/f.txt (a file), /zz (missing), /p/d (cannot be looked up).
InputCandidates ==
    { [abs |-> TRUE, parts |-> <<"m">>],
      [abs |-> FALSE, parts |-> <<".">>],
      [abs |-> TRUE, parts |-> <<"n">>],
      [abs |-> TRUE, parts |-> <<"m", "a">>],
      [abs |-> FALSE, parts |-> <<"a">>],
      [abs |-> TRUE, parts |-> <<"m", "b", "..", "a">>],
      [abs |-> TRUE, parts |-> <<"n", "a">>],
      [abs |-> TRUE, parts |-> <<"m", "f.txt">>],
      [abs |-> TRUE, parts |-> <<"zz">>],
      [abs |-> TRUE, parts |-> <<"p", "d">>] }

\* alreadySeen with the lookup lost: nothing counts as seen.
neverSeen(seen, absPath) == FALSE

\* seenPaths[absPath]
alreadySeen(seen, absPath) == absPath \in seen

\* The WorkItem both collectors append.
NewWorkItem(folder, absPath, dumbMode) ==
    [FolderName |-> folder, SourcePath |-> absPath,
     OutputPath |-> OutputPathOf(folder), DumbMode |-> dumbMode]

\* collectRecursiveWorkItems, the loop over the folders of one input path:
\* [seen, items] after it.
RECURSIVE addFolders(_, _, _, _, _, _)
addFolders(folders, inputPath, seen, items, dumbMode, getwdErr) ==
    IF folders = <<>> THEN [seen |-> seen, items |-> items]
    ELSE LET folder == Head(folders)
             resolved == Abs(Join(inputPath, folder), getwdErr)
             absPath == PathString(resolved.path)
         IN  IF resolved.err \/ alreadySeen(seen, absPath)
             THEN addFolders(Tail(folders), inputPath, seen, items, dumbMode,
                             getwdErr)
             ELSE addFolders(Tail(folders), inputPath, seen \cup {absPath},
                             Append(items, NewWorkItem(folder, absPath, dumbMode)),
                             dumbMode, getwdErr)

\* collectRecursiveWorkItems, one pass of the loop over inputPaths.
CollectRecursiveStep ==
    /\ cpc = "loop"
    /\ recursive
    /\ cidx <= Len(inputPaths)
    /\ LET inputPath == inputPaths[cidx]
           found == getFolders(inputPath)
           after == addFolders(found.folders, inputPath, seenPaths, workItems,
                               dumbArg, getwdFails)
       IN  IF Stat(inputPath) = "notexist" \/ found.err
           THEN UNCHANGED << seenPaths, workItems >>
           ELSE /\ seenPaths' = after.seen
                /\ workItems' = after.items
    /\ cidx' = cidx + 1
    /\ UNCHANGED << numThreads, fs, mainpc, workChan, chanClosed, feedIdx, wg,
                    wpc, witem, wcount, wload, stats, mu, snapshot, taken, converted,
                    outcome, runVars, mainVars, walkVars,
                    inputPaths, recursive, dumbArg,
                    getwdFails, cpc >>

\* collectDirectWorkItems, one pass of the loop over inputPaths. An os.Stat
\* error other than "not exist" leaves inputInfo nil, and inputInfo.IsDir()
\* panics.
CollectDirectStep ==
    /\ cpc = "loop"
    /\ ~recursive
    /\ cidx <= Len(inputPaths)
    /\ LET inputPath == inputPaths[cidx]
           inputInfo == Stat(inputPath)
           resolved == Abs(inputPath, getwdFails)
           absPath == PathString(resolved.path)
       IN  CASE inputInfo = "notexist" ->
                  /\ cidx' = cidx + 1
                  /\ UNCHANGED << seenPaths, workItems, cpc >>
             [] inputInfo = "error" ->
                  /\ cpc' = "panic"
                  /\ UNCHANGED << seenPaths, workItems, cidx >>
             [] inputInfo = "file" ->
                  /\ cidx' = cidx + 1
                  /\ UNCHANGED << seenPaths, workItems, cpc >>
             [] inputInfo = "dir" /\ (resolved.err \/ alreadySeen(seenPaths, absPath)) ->
                  /\ cidx' = cidx + 1
                  /\ UNCHANGED << seenPaths, workItems, cpc >>
             [] OTHER ->
                  /\ cidx' = cidx + 1
                  /\ seenPaths' = seenPaths \cup {absPath}
                  /\ workItems' = Append(workItems,
                         NewWorkItem(PathBase(resolved.path), absPath, dumbArg))
                  /\ cpc' = cpc
    /\ UNCHANGED << numThreads, fs, mainpc, workChan, chanClosed, feedIdx, wg,
                    wpc, witem, wcount, wload, stats, mu, snapshot, taken, converted,
                    outcome, runVars, mainVars, walkVars,
                    inputPaths, recursive, dumbArg,
                    getwdFails >>

\* Either collector: `return workItems, nil` after the loop.
CollectReturn ==
    /\ cpc = "loop"
    /\ cidx > Len(inputPaths)
    /\ cpc' = "returned"
    /\ UNCHANGED << workItems, numThreads, fs, mainpc, workChan, chanClosed,
                    feedIdx, wg, wpc, witem, wcount, wload, stats, mu, snapshot,
                    taken, converted, outcome, runVars, mainVars, walkVars,
                    inputPaths, recursive,
                    dumbArg, getwdFails, cidx, seenPaths >>

\* Lists of 1..n -input arguments.
InputLists(n) == UNION { [1..k -> InputCandidates] : k \in 1..n }

\* A collector is called with the parsed flags; no pool exists yet.
CollectInit ==
    /\ inputPaths \in InputLists(MaxRoots)
    /\ recursive \in BOOLEAN
    /\ dumbArg \in BOOLEAN
    /\ getwdFails \in BOOLEAN
    /\ cidx = 1
    /\ seenPaths = {}
    /\ cpc = "loop"
    /\ workItems = <<>>
    /\ numThreads = 1
    /\ fs = [p \in OutPaths |-> NoFile]
    /\ mainpc = "collect"
    /\ workChan = <<>>
    /\ chanClosed = FALSE
    /\ feedIdx = 1
    /\ wg = 0
    /\ wpc = [w \in 1..1 |-> "idle"]
    /\ witem = [w \in 1..1 |-> 0]
    /\ wcount = [w \in 1..1 |-> 0]
    /\ wload = [w \in 1..1 |-> <<>>]
    /\ stats = NewStats(0)
    /\ mu = FALSE
    /\ snapshot = <<>>
    /\ taken = <<>>
    /\ converted = <<>>
    /\ outcome = <<>>
    /\ run = 1
    /\ prevOutcome = <<>>
    /\ fsStart = fs
    /\ threadsArg = numThreads
    /\ numCPU = MaxCPU
    /\ WalkOff

CollectNext ==
    \/ CollectRecursiveStep
    \/ CollectDirectStep
    \/ CollectReturn

SpecCollect == CollectInit /\ [][CollectNext]_vars

\* --------------------------------------------------- the walk, file by file

\* The directory whose walk is followed: /s. Its files are drawn from these
\* (several may stand for one path, with different content or access): walk
\* is the file's place in filepath.WalkDir's order (the entries of each
\* directory by name, a directory's files where its name stands), rank its
\* place in the byte order of the full paths. readable: os.Open and Read
\* succeed on the file.
textLong == [kind |-> "text", long |-> TRUE]

WalkCandidates ==
    { [dir |-> "/s", rel |-> ".DS_Store", walk |-> 1, rank |-> 1,
       name |-> <<".","D","S","_","S","t","o","r","e">>,
       content |-> binaryShort, readable |-> TRUE],
      [dir |-> "/s", rel |-> ".git/config", walk |-> 2, rank |-> 2,
       name |-> <<"c","o","n","f","i","g">>,
       content |-> textShort, readable |-> TRUE],
      [dir |-> "/s", rel |-> ".git/config", walk |-> 2, rank |-> 2,
       name |-> <<"c","o","n","f","i","g">>,
       content |-> textLong, readable |-> TRUE],
      [dir |-> "/s", rel |-> ".github.md", walk |-> 3, rank |-> 3,
       name |-> <<".","g","i","t","h","u","b",".","m","d">>,
       content |-> textShort, readable |-> TRUE],
      [dir |-> "/s", rel |-> "ch/.DS_Store", walk |-> 4, rank |-> 5,
       name |-> <<".","D","S","_","S","t","o","r","e">>,
       content |-> binaryShort, readable |-> TRUE],
      [dir |-> "/s", rel |-> "ch/p1.jpg", walk |-> 5, rank |-> 6,
       name |-> <<"p","1",".","j","p","g">>,
       content |-> jpegLong, readable |-> TRUE],
      [dir |-> "/s", rel |-> "ch.txt", walk |-> 6, rank |-> 4,
       name |-> <<"c","h",".","t","x","t">>,
       content |-> textShort, readable |-> FALSE],
      [dir |-> "/s", rel |-> "data.bin", walk |-> 7, rank |-> 7,
       name |-> <<"d","a","t","a",".","b","i","n">>,
       content |-> binaryShort, readable |-> TRUE],
      [dir |-> "/s", rel |-> "folder.jpg", walk |-> 8, rank |-> 8,
       name |-> <<"f","o","l","d","e","r",".","j","p","g">>,
       content |-> jpegLong, readable |-> TRUE],
      [dir |-> "/s", rel |-> "page1.jpg", walk |-> 9, rank |-> 9,
       name |-> <<"p","a","g","e","1",".","j","p","g">>,
       content |-> jpegLong, readable |-> TRUE],
      [dir |-> "/s", rel |-> "page2.jpg", walk |-> 10, rank |-> 10,
       name |-> <<"p","a","g","e","2",".","j","p","g">>,
       content |-> jpegLong, readable |-> FALSE],
      [dir |-> "/s", rel |-> "readme.md", walk |-> 11, rank |-> 11,
       name |-> <<"r","e","a","d","m","e",".","m","d">>,
       content |-> textShort, readable |-> TRUE],
      [dir |-> "/s", rel |-> "x.swp", walk |-> 12, rank |-> 12,
       name |-> <<"x",".","s","w","p">>,
       content |-> textLong, readable |-> TRUE],
      [dir |-> "/s", rel |-> "x.txt~", walk |-> 13, rank |-> 13,
       name |-> <<"x",".","t","x","t","~">>,
       content |-> textLong, readable |-> TRUE] }

\* The files of a set in the order filepath.WalkDir visits them.
InWalkOrder(files) ==
    LET before(f) == Cardinality({ g \in files : g.walk < f.walk })
    IN  [k \in 1..Cardinality(files) |->
            CHOOSE f \in files : before(f) = k - 1]

\* The trees of at most n files: one file at a path.
WalkTrees(n) ==
    { InWalkOrder(files) : files \in
        { t \in SUBSET WalkCandidates :
            /\ Cardinality(t) <= n
            /\ \A f, g \in t : f.rel = g.rel => f = g } }

\* getAllFiles or getSmartFilteredFiles is called on a directory; no pool
\* exists yet.
WalkInit ==
    /\ walkTree \in WalkTrees(MaxFiles)
    /\ walkDumb \in BOOLEAN
    /\ walkErrAt \in 0..(Len(walkTree) + 1)
    /\ walkIdx = 1
    /\ walkIncluded = <<>>
    /\ walkExcluded = <<>>
    /\ walkOpened = {}
    /\ walkpc = "walk"
    /\ workItems = <<>>
    /\ numThreads = 1
    /\ fs = [p \in OutPaths |-> NoFile]
    /\ mainpc = "convert"
    /\ workChan = <<>>
    /\ chanClosed = FALSE
    /\ feedIdx = 1
    /\ wg = 0
    /\ wpc = [w \in 1..1 |-> "idle"]
    /\ witem = [w \in 1..1 |-> 0]
    /\ wcount = [w \in 1..1 |-> 0]
    /\ wload = [w \in 1..1 |-> <<>>]
    /\ stats = NewStats(0)
    /\ mu = FALSE
    /\ snapshot = <<>>
    /\ taken = <<>>
    /\ converted = <<>>
    /\ outcome = <<>>
    /\ run = 1
    /\ prevOutcome = <<>>
    /\ fsStart = fs
    /\ inputPaths = <<>>
    /\ recursive = FALSE
    /\ dumbArg = FALSE
    /\ getwdFails = FALSE
    /\ cidx = 0
    /\ seenPaths = {}
    /\ cpc = "off"
    /\ threadsArg = numThreads
    /\ numCPU = MaxCPU

\* WalkVisit keeping each excluded name once.
WalkVisitDistinctNames ==
    /\ walkpc = "walk"
    /\ walkIdx <= Len(walkTree)
    /\ walkErrAt # walkIdx
    /\ LET file == walkTree[walkIdx]
       IN  /\ IF walkDumb \/ smartIncludes(file)
              THEN /\ walkIncluded' = Append(walkIncluded, file)
                   /\ walkExcluded' = walkExcluded
              ELSE /\ walkExcluded' =
                        IF \E i \in 1..Len(walkExcluded) :
                               walkExcluded[i] = file.name
                        THEN walkExcluded
                        ELSE Append(walkExcluded, file.name)
                   /\ walkIncluded' = walkIncluded
           /\ walkOpened' =
                IF /\ ~walkDumb
                   /\ ~shouldExcludeFile(file.name)
                   /\ isUsefulFile(file).opened
                THEN walkOpened \cup {file}
                ELSE walkOpened
    /\ walkIdx' = walkIdx + 1
    /\ UNCHANGED << workItems, numThreads, fs, mainpc, workChan, chanClosed,
                    feedIdx, wg, wpc, witem, wcount, wload, stats, mu,
                    snapshot, taken, converted, outcome, runVars, collectVars,
                    mainVars, walkTree, walkDumb, walkErrAt, walkpc >>

\* The WalkDir callback on one file. getAllFiles appends every path;
\* getSmartFilteredFiles appends the path to includedFiles or the file's
\* name to excludedFiles.
WalkVisit ==
    /\ walkpc = "walk"
    /\ walkIdx <= Len(walkTree)
    /\ walkErrAt # walkIdx
    /\ LET file == walkTree[walkIdx]
       IN  /\ IF walkDumb \/ smartIncludes(file)
              THEN /\ walkIncluded' = Append(walkIncluded, file)
                   /\ walkExcluded' = walkExcluded
              ELSE /\ walkExcluded' = Append(walkExcluded, file.name)
                   /\ walkIncluded' = walkIncluded
           /\ walkOpened' =
                IF /\ ~walkDumb
                   /\ ~shouldExcludeFile(file.name)
                   /\ isUsefulFile(file).opened
                THEN walkOpened \cup {file}
                ELSE walkOpened
    /\ walkIdx' = walkIdx + 1
    /\ UNCHANGED << workItems, numThreads, fs, mainpc, workChan, chanClosed,
                    feedIdx, wg, wpc, witem, wcount, wload, stats, mu,
                    snapshot, taken, converted, outcome, runVars, collectVars,
                    mainVars, walkTree, walkDumb, walkErrAt, walkpc >>

\* The callback is handed an error (a directory that cannot be read): it
\* returns the error, the walk ends, and the function returns it.
WalkError ==
    /\ walkpc = "walk"
    /\ walkErrAt = walkIdx
    /\ walkpc' = "failed"
    /\ walkIncluded' = <<>>
    /\ walkExcluded' = <<>>
    /\ UNCHANGED << workItems, numThreads, fs, mainpc, workChan, chanClosed,
                    feedIdx, wg, wpc, witem, wcount, wload, stats, mu,
                    snapshot, taken, converted, outcome, runVars, collectVars,
                    mainVars, walkTree, walkDumb, walkErrAt, walkIdx,
                    walkOpened >>

\* The walk is over: sort.Strings on the list, and the return.
WalkReturn ==
    /\ walkpc = "walk"
    /\ walkIdx > Len(walkTree)
    /\ walkErrAt # walkIdx
    /\ walkIncluded' = SortStrings(walkIncluded)
    /\ walkpc' = "returned"
    /\ UNCHANGED << workItems, numThreads, fs, mainpc, workChan, chanClosed,
                    feedIdx, wg, wpc, witem, wcount, wload, stats, mu,
                    snapshot, taken, converted, outcome, runVars, collectVars,
                    mainVars, walkTree, walkDumb, walkErrAt, walkIdx,
                    walkExcluded, walkOpened >>

WalkNext ==
    \/ WalkVisit
    \/ WalkError
    \/ WalkReturn

SpecWalk == WalkInit /\ [][WalkNext]_vars

\* ------------------------------------------------- main, up to the dispatch

\* The thread count with the ceiling at the CPU count itself.
clampThreadsAtCPU(threads, cpus) ==
    IF threads < 1 THEN 1
    ELSE IF threads > cpus THEN cpus
    ELSE threads

\* main's validation of *threads against runtime.NumCPU().
clampThreads(threads, cpus) ==
    IF threads < 1 THEN 1
    ELSE IF threads > cpus * 2 THEN cpus * 2
    ELSE threads

\* main after flag.Parse and the collection: -threads holds any value, the
\* machine has any number of CPUs, and the job list is not empty. No
\* goroutine exists yet.
MainInit ==
    /\ threadsArg \in (0 - MaxThreadsArg)..MaxThreadsArg
    /\ numThreads = threadsArg
    /\ numCPU \in 1..MaxCPU
    /\ \E dirs \in DirLists(MaxJobs), dumbMode \in BOOLEAN :
         workItems = [i \in 1..Len(dirs) |-> WorkItemOf(dirs[i], dumbMode)]
    /\ \E old \in SUBSET ({ workItems[i].OutputPath : i \in Jobs } \ Uncreatable) :
         fs = [p \in OutPaths |-> IF p \in old THEN OldFile ELSE NoFile]
    /\ mainpc = "flags"
    /\ workChan = <<>>
    /\ chanClosed = FALSE
    /\ feedIdx = 1
    /\ wg = 0
    /\ wpc = <<>>
    /\ witem = <<>>
    /\ wcount = <<>>
    /\ wload = <<>>
    /\ stats = NewStats(Len(workItems))
    /\ mu = FALSE
    /\ snapshot = <<>>
    /\ taken = [j \in Jobs |-> 0]
    /\ converted = [j \in Jobs |-> 0]
    /\ outcome = [j \in Jobs |-> <<>>]
    /\ run = 1
    /\ prevOutcome = [j \in Jobs |-> <<>>]
    /\ fsStart = fs
    /\ inputPaths = <<>>
    /\ recursive = FALSE
    /\ dumbArg = FALSE
    /\ getwdFails = FALSE
    /\ cidx = 0
    /\ seenPaths = {}
    /\ cpc = "off"
    /\ WalkOff

\* main: "Validate thread count"; the value is what processConcurrently is
\* called with.
ValidateThreads ==
    /\ mainpc = "flags"
    /\ numThreads' = clampThreads(numThreads, numCPU)
    /\ mainpc' = "start"
    /\ wpc' = [w \in 1..numThreads' |-> "idle"]
    /\ witem' = [w \in 1..numThreads' |-> 0]
    /\ wcount' = [w \in 1..numThreads' |-> 0]
    /\ wload' = [w \in 1..numThreads' |-> <<>>]
    /\ UNCHANGED << workItems, fs, workChan, chanClosed, feedIdx, wg, stats,
                    mu, snapshot, taken, converted, outcome, runVars,
                    collectVars, mainVars, walkVars >>

\* main from the validated flags to the start of the workers.
MainNext ==
    \/ ValidateThreads
    \/ StartPool

SpecMain == MainInit /\ [][MainNext]_vars

\* ------------------------------------------------------------ specifications

Next ==
    \/ StartPool
    \/ FeederSend
    \/ FeederClose
    \/ \E w \in Workers : WorkerRecv(w)
    \/ \E w \in Workers : WorkerExit(w)
    \/ \E w \in Workers : StatOutput(w)
    \/ \E w \in Workers : OpenOutput(w)
    \/ \E w \in Workers : AddFiles(w)
    \/ \E w \in Workers : LockStats(w)
    \/ \E w \in Workers : RecordSkipped(w)
    \/ \E w \in Workers : RecordError(w)
    \/ \E w \in Workers : RecordSuccess(w)
    \/ PoolReturn
    \/ PrintLock
    \/ PrintFinalStats

Spec == Init /\ [][Next]_vars

\* The job lists followed under fairness: the first jobs of one list whose
\* jobs take every path of processWorkItem (a success, a failure while
\* adding files to the same output path, an empty selection, an output that
\* cannot be created, a walk that fails; a skip where a file was there).
FairDirs == <<"/m/a", "/n/a", "/m/b", "/m/long", "/m/c">>

FairInit ==
    /\ Init
    /\ Len(workItems) <= Len(FairDirs)
    /\ \A i \in Jobs : workItems[i].SourcePath = FairDirs[i]

\* The pool under the Go scheduler: while some goroutine can take a step,
\* a step is taken.
SpecFair == FairInit /\ [][Next]_vars /\ WF_vars(Next)

\* The pool, run a second time over what the first run left.
SpecRerun == Init /\ [][Next \/ Rerun]_vars

\* ------------------------------------------------------------------ claims

\* processConcurrently has returned to main.
Returned == mainpc \in {"print", "locked", "done"}

\* C1. Stats conservation: once processConcurrently has returned,
\* Success + Errors + Skipped = Total, and Total is the number of jobs.
C1_StatsConservation ==
    Returned =>
        /\ stats.Total = Len(workItems)
        /\ stats.Success + stats.Errors + stats.Skipped = stats.Total

\* A returned pool that counted a skip beside a success or an error.
C1_Witness ==
    /\ Returned
    /\ stats.Success + stats.Errors >= 1
    /\ stats.Skipped >= 1
    /\ stats.Total >= 2

\* C2. Existing archives are never overwritten: whenever a worker's
\* os.Create runs, no file is at the job's OutputPath at that moment.
C2_NeverOverwrites ==
    [][\A w \in Workers :
          (wpc[w] = "convert" /\ wpc'[w] = "add")
              => ~Exists(workItems[witem[w]].OutputPath)]_vars

\* C3. Skip invariant: a job whose OutputPath held a file before the pool
\* was dispatched is never handed to convertToCBZ, the file stays as it was,
\* and once the pool has returned the job was recorded once, as skipped.
C3_SkipInvariant ==
    \A j \in Jobs :
        fsStart[workItems[j].OutputPath] = OldFile =>
            /\ converted[j] = 0
            /\ fs[workItems[j].OutputPath] = OldFile
            /\ outcome[j] \in {<<>>, <<"skipped">>}
            /\ Returned => /\ outcome[j] = <<"skipped">>
                           /\ stats.Skipped >=
                                Cardinality({ k \in Jobs :
                                    fsStart[workItems[k].OutputPath] = OldFile })

\* A finished run in which one job found its archive and another built one.
C3_Witness ==
    /\ mainpc = "done"
    /\ \E j, k \in Jobs :
         /\ fsStart[workItems[j].OutputPath] = OldFile
         /\ outcome[j] = <<"skipped">>
         /\ outcome[k] = <<"success">>

\* C4. Exactly-once consumption: no job is received twice, recorded twice or
\* held by two workers; a job is recorded only after it was received; and
\* once the pool has returned every job was fed, received once and recorded
\* once.
C4_ExactlyOnce ==
    /\ \A j \in Jobs :
         /\ taken[j] <= 1
         /\ Len(outcome[j]) <= taken[j]
         /\ taken[j] = 1 => j < feedIdx
         /\ Cardinality({ w \in Workers : witem[w] = j }) <= 1
    /\ Returned =>
         /\ feedIdx = Len(workItems) + 1
         /\ workChan = <<>>
         /\ \A j \in Jobs : taken[j] = 1 /\ Len(outcome[j]) = 1

\* A pool of two workers has returned from a list of two jobs, each
\* received once.
C4_Witness ==
    /\ Returned
    /\ numThreads >= 2
    /\ Len(workItems) >= 2
    /\ \A j \in Jobs : taken[j] = 1 /\ Len(outcome[j]) = 1

\* C5. Completion barrier: when processConcurrently has returned every
\* worker has exited and every job is recorded, and what printFinalStats
\* read is the final stats: no worker changes them at or after the read.
C5_CompletionBarrier ==
    /\ Returned =>
         /\ wg = 0
         /\ \A w \in Workers : wpc[w] = "exited"
         /\ \A j \in Jobs : Len(outcome[j]) = 1
    /\ mainpc = "locked" => \A w \in Workers : wpc[w] = "exited"
    /\ snapshot # <<>> =>
         /\ snapshot = stats
         /\ snapshot.Success + snapshot.Errors + snapshot.Skipped
                = Len(workItems)

\* printFinalStats has read the stats of a pool of two workers and two jobs.
C5_Witness ==
    /\ mainpc = "done"
    /\ snapshot # <<>>
    /\ numThreads >= 2
    /\ Len(workItems) >= 2

\* convertToCBZ fails for the job whatever the other jobs do: the selection
\* fails or is empty, the output cannot be created, or a file cannot be added.
ConvertFails(item) ==
    LET sel == Selected[item.SourcePath][item.DumbMode]
    IN  \/ sel.err
        \/ item.OutputPath \in Uncreatable
        \/ Len(writtenEntries(sel.files, item.SourcePath)) < Len(sel.files)

\* The jobs recorded with a given outcome.
Recorded(result) == { j \in Jobs : outcome[j] = <<result>> }

\* C6. Failure isolation: recording a failed conversion adds one to Errors,
\* changes no other counter and sends the worker back to its loop; a job is
\* recorded as an error only if its own conversion fails and as a success
\* only if it does not; and once the pool has returned every job of the
\* list has its outcome.
C6_FailureIsolation ==
    /\ [][\A w \in Workers :
            (wpc[w] = "failed_locked" /\ wpc'[w] # "failed_locked")
                => /\ stats' = [stats EXCEPT !.Errors = @ + 1]
                   /\ wpc'[w] = "recv"]_vars
    /\ [](/\ stats.Errors = Cardinality(Recorded("error"))
          /\ \A j \in Recorded("error") : ConvertFails(workItems[j])
          /\ \A j \in Recorded("success") : ~ConvertFails(workItems[j])
          /\ Returned => \A j \in Jobs : Len(outcome[j]) = 1)

\* A returned pool in which one job failed and a job fed after it succeeded.
C6_Witness ==
    /\ Returned
    /\ \E j, k \in Jobs :
         j < k /\ outcome[j] = <<"error">> /\ outcome[k] = <<"success">>

\* The stats a pool of one worker ends with: the jobs in order, each seeing
\* the files the jobs before it left.
RECURSIVE SequentialStats(_, _, _)
SequentialStats(items, present, st) ==
    IF items = <<>> THEN st
    ELSE LET item == Head(items)
             sel == Selected[item.SourcePath][item.DumbMode]
         IN  IF item.OutputPath \in present
             THEN SequentialStats(Tail(items), present,
                                  [st EXCEPT !.Skipped = @ + 1])
             ELSE IF sel.err \/ item.OutputPath \in Uncreatable
             THEN SequentialStats(Tail(items), present,
                                  [st EXCEPT !.Errors = @ + 1])
             ELSE IF ConvertFails(item)
             THEN SequentialStats(Tail(items), present \cup {item.OutputPath},
                                  [st EXCEPT !.Errors = @ + 1])
             ELSE SequentialStats(Tail(items), present \cup {item.OutputPath},
                                  [st EXCEPT !.Success = @ + 1,
                                             !.NonImageFiles = @ + sel.excluded])

\* C7. Concurrency determinism: the stats a returned pool holds are those of
\* a one-worker run over the same job list and the same output directory,
\* whatever the thread count and the interleaving.
C7_Deterministic ==
    Returned =>
        stats = SequentialStats(workItems,
                                { p \in OutPaths : fsStart[p].kind # "none" },
                                NewStats(Len(workItems)))

\* C8. No partial archive on failure: a job whose output file was created
\* and for which adding a file failed is recorded as an error, and once it
\* is recorded no file is at its OutputPath.
C8_NoPartialArchive ==
    \A j \in Jobs :
        LET item == workItems[j]
            sel == Selected[item.SourcePath][item.DumbMode]
        IN  ( /\ converted[j] = 1
              /\ ~sel.err
              /\ item.OutputPath \notin Uncreatable
              /\ ConvertFails(item)
              /\ Len(outcome[j]) = 1 )
                => /\ outcome[j] = <<"error">>
                   /\ ~Exists(item.OutputPath)

\* filepath.Abs can resolve the path.
Resolvable(path) == path.abs \/ ~getwdFails

\* A location of the machine as an absolute path string.
LocationString(loc) == "/" \o joinParts(loc)

\* The directories a list of folder names stands for under a root.
ChildLocations(loc, folders) ==
    [i \in 1..Len(folders) |-> LocationString(Append(loc, folders[i]))]

\* The eligible directories of a run, in the order the inputs name them:
\* in direct mode every input that is a directory and resolves; in
\* recursive mode the child directories of every input that can be listed.
RECURSIVE EligibleDirs(_)
EligibleDirs(inputs) ==
    IF inputs = <<>> THEN <<>>
    ELSE LET input == Head(inputs)
             here ==
               IF ~Resolvable(input) THEN <<>>
               ELSE IF recursive
               THEN IF Stat(input) = "dir" /\ Locate(input) \notin NoAccess
                    THEN ChildLocations(Locate(input), getFolders(input).folders)
                    ELSE <<>>
               ELSE IF Stat(input) = "dir"
                    THEN <<LocationString(Locate(input))>>
                    ELSE <<>>
         IN  here \o EligibleDirs(Tail(inputs))

\* A list without the repetitions of its earlier elements.
RECURSIVE FirstOccurrences(_, _)
FirstOccurrences(list, seen) ==
    IF list = <<>> THEN <<>>
    ELSE IF Head(list) \in seen THEN FirstOccurrences(Tail(list), seen)
    ELSE <<Head(list)>> \o FirstOccurrences(Tail(list), seen \cup {Head(list)})

\* C9. Dedup invariant: the jobs a collector returns have pairwise-distinct
\* SourcePath, and they are the eligible directories, one job each, in the
\* order of their first occurrence.
C9_Dedup ==
    cpc = "returned" =>
        /\ \A i, j \in 1..Len(workItems) :
             i # j => workItems[i].SourcePath # workItems[j].SourcePath
        /\ [i \in 1..Len(workItems) |-> workItems[i].SourcePath]
               = FirstOccurrences(EligibleDirs(inputPaths), {})

\* A collector has returned jobs from two different inputs that name the
\* same place.
C9_Witness ==
    /\ cpc = "returned"
    /\ Len(inputPaths) >= 2
    /\ inputPaths[1] # inputPaths[2]
    /\ Locate(inputPaths[1]) = Locate(inputPaths[2])
    /\ Len(workItems) >= 1

\* C10. Re-run idempotence: in a second run over what the first left, no
\* output file is created or changed, no job that succeeded in the first
\* run is converted, and once the pool has returned each of them was
\* recorded as skipped.
C10_RerunIdempotent ==
    run = 2 =>
        /\ fs = fsStart
        /\ \A j \in Jobs :
             prevOutcome[j] = <<"success">> =>
                 /\ converted[j] = 0
                 /\ Returned => outcome[j] = <<"skipped">>

\* A second run has returned: a job that succeeded before was skipped, and a
\* job that failed before was converted again.
C10_Witness ==
    /\ run = 2
    /\ Returned
    /\ \E j, k \in Jobs :
         /\ prevOutcome[j] = <<"success">> /\ outcome[j] = <<"skipped">>
         /\ prevOutcome[k] = <<"error">> /\ converted[k] = 1

\* The files the walk has visited so far.
Visited == { walkTree[i] : i \in 1..(walkIdx - 1) }

\* The elements of a list.
Elements(list) == { list[i] : i \in 1..Len(list) }

\* The file reaches the content sniff and cannot be opened or read there.
SniffFails(file) ==
    /\ ~shouldExcludeFile(file.name)
    /\ isUsefulFile(file).err

\* C11. Fail-open invariant: in smart mode, while the walk runs and when it
\* has returned, every visited file that reached the content sniff and could
\* not be opened or read there is in the included list; each visited file is
\* in exactly one of the two lists, so it is not counted as excluded.
C11_FailOpen ==
    (~walkDumb /\ walkpc \in {"walk", "returned"}) =>
        /\ \A file \in Visited : SniffFails(file) => file \in Elements(walkIncluded)
        /\ Len(walkIncluded) + Len(walkExcluded) = Cardinality(Visited)
        /\ Elements(walkIncluded) \subseteq Visited

\* A smart walk has returned a list holding a file the sniff could not open,
\* beside a file it excluded.
C11_Witness ==
    /\ ~walkDumb
    /\ walkpc = "returned"
    /\ \E file \in Elements(walkIncluded) : SniffFails(file)
    /\ Len(walkExcluded) >= 1

\* The files of the job's source directory that cannot be opened.
Unopenable(item) ==
    { file \in Elements(SourceTree(item.SourcePath).files) : ~file.readable }

\* The entries of an archive of the job's readable selected files.
ReadableEntries(item) ==
    LET sel == Selected[item.SourcePath][item.DumbMode]
        readable == SelectSeq(sel.files, LAMBDA file : file.readable)
    IN  [i \in 1..Len(readable) |-> EntryName(readable[i], item.SourcePath)]

\* C12. Inaccessible files are skipped with a warning: a job that was
\* converted, whose source directory holds a file that cannot be opened and
\* at least one readable file that is selected, is recorded as a success,
\* and its archive holds the readable files without the inaccessible one.
C12_InaccessibleSkipped ==
    \A j \in Jobs :
        LET item == workItems[j]
        IN  ( /\ Unopenable(item) # {}
              /\ ReadableEntries(item) # <<>>
              /\ converted[j] = 1
              /\ Len(outcome[j]) = 1 )
                => /\ outcome[j] = <<"success">>
                   /\ fs[item.OutputPath].kind = "cbz"
                   /\ fs[item.OutputPath].entries = ReadableEntries(item)

\* For every directory and mode: the walk succeeds and yields no included
\* file.
NoIncludedFile ==
    [dir \in SourceDirs |-> [dumbMode \in BOOLEAN |->
        LET found == IF dumbMode THEN getAllFiles(dir)
                     ELSE getSmartFilteredFiles(dir)
        IN  ~found.err /\ found.files = <<>>]]

\* The job's source directory yields no included file.
YieldsNothing(item) == NoIncludedFile[item.SourcePath][item.DumbMode]

\* C13 as stated. Empty-content error: a job whose source directory yields
\* no included file is recorded as an error, and no archive is ever created
\* at its OutputPath.
C13_EmptyIsError ==
    \A j \in Jobs :
        YieldsNothing(workItems[j]) =>
            /\ Len(outcome[j]) = 1 => outcome[j] = <<"error">>
            /\ fs[workItems[j].OutputPath].kind # "cbz"

\* C13, amended. A job whose source directory yields no included file and
\* that is handed to convertToCBZ (no file was at its OutputPath when it was
\* tested) is recorded as an error and its conversion creates no file; when a
\* file is at its OutputPath it is recorded as skipped and never converted.
C13_EmptyConvertedIsError ==
    \A j \in Jobs :
        YieldsNothing(workItems[j]) =>
            /\ converted[j] <= 1
            /\ ~( /\ fs[workItems[j].OutputPath].kind = "cbz"
                  /\ fs[workItems[j].OutputPath].owner = j )
            /\ Len(outcome[j]) = 1 =>
                 outcome[j] = IF converted[j] = 1 THEN <<"error">>
                              ELSE <<"skipped">>

\* A returned pool: a job whose directory holds only excluded files was
\* converted and recorded as an error, beside a job that succeeded.
C13_Witness ==
    /\ Returned
    /\ \E j, k \in Jobs :
         /\ YieldsNothing(workItems[j])
         /\ converted[j] = 1
         /\ outcome[j] = <<"error">>
         /\ fs[workItems[j].OutputPath] = NoFile
         /\ outcome[k] = <<"success">>

\* The paths of a list of files, relative to the walked directory.
RelPaths(files) == { files[i].rel : i \in 1..Len(files) }

\* The walked directory holds exactly page1.jpg (an image), .DS_Store,
\* .git/config (plain text) and readme.md.
ScenarioTree ==
    /\ RelPaths(walkTree) = {"page1.jpg", ".DS_Store", ".git/config", "readme.md"}
    /\ \A i \in 1..Len(walkTree) :
         /\ walkTree[i].readable
         /\ walkTree[i].rel = "page1.jpg" => walkTree[i].content.kind = "jpeg"
         /\ walkTree[i].rel = ".git/config" => walkTree[i].content.kind = "text"

\* C14. Smart exclusion scenario: in smart mode the walk of that directory
\* returns the included files {page1.jpg, readme.md} and excludes 2.
C14_SmartExclusionScenario ==
    (~walkDumb /\ walkpc = "returned" /\ ScenarioTree) =>
        /\ RelPaths(walkIncluded) = {"page1.jpg", "readme.md"}
        /\ Len(walkExcluded) = 2

\* The list is in the byte order of its paths, without repetition.
Sorted(files) ==
    \A i, j \in 1..Len(files) : i < j => files[i].rank < files[j].rank

\* C15. Dumb-mode totality: in dumb mode nothing is ever excluded, and the
\* list a walk returns holds every non-directory file under the directory
\* (at any depth, whatever its name, content or access) once, in sorted
\* order.
C15_DumbTotality ==
    walkDumb =>
        /\ walkExcluded = <<>>
        /\ walkpc = "returned" =>
             /\ Elements(walkIncluded) = Elements(walkTree)
             /\ Len(walkIncluded) = Len(walkTree)
             /\ Sorted(walkIncluded)

\* A dumb walk has returned a system file, a file inside .git, an unreadable
\* file and a file of a subdirectory that the walk met before a file that
\* sorts ahead of it.
C15_Witness ==
    /\ walkDumb
    /\ walkpc = "returned"
    /\ {".DS_Store", ".git/config", "ch/p1.jpg", "ch.txt"}
           \subseteq RelPaths(walkIncluded)
    /\ ~Sorted(walkTree)

\* C16. Direct-mode collection is never fatal: whatever inspecting a root
\* gives, collectDirectWorkItems does not stop before the end of the list,
\* and what it returns is one job for each distinct root that exists and is
\* a directory.
C16_DirectNeverFatal ==
    ~recursive =>
        /\ cpc # "panic"
        /\ cpc = "returned" =>
             [i \in 1..Len(workItems) |-> workItems[i].SourcePath]
                 = FirstOccurrences(EligibleDirs(inputPaths), {})

\* The workers processConcurrently has started.
Started == { w \in DOMAIN wpc : wpc[w] # "idle" }

\* C17. Concurrency clamp: for a requested thread count n and c CPUs, the
\* number of workers started is 1 when n < 1, 2*c when n > 2*c, and n
\* otherwise, so between 1 and 2*c.
C17_ConcurrencyClamp ==
    mainpc = "wait" =>
        /\ threadsArg < 1 => Cardinality(Started) = 1
        /\ threadsArg > 2 * numCPU => Cardinality(Started) = 2 * numCPU
        /\ (threadsArg >= 1 /\ threadsArg <= 2 * numCPU)
               => Cardinality(Started) = threadsArg
        /\ Cardinality(Started) >= 1
        /\ Cardinality(Started) <= 2 * numCPU
        /\ wg = Cardinality(Started)

\* The workers were started for a request above the ceiling of a machine
\* with more than one CPU.
C17_Witness ==
    /\ mainpc = "wait"
    /\ numCPU >= 2
    /\ threadsArg > 2 * numCPU
    /\ Cardinality(Started) = 2 * numCPU

\* C18. Pool termination: under fair scheduling the feeder eventually has
\* sent every job and closed the channel, every worker eventually exits,
\* and processConcurrently eventually returns; a worker exits only when the
\* channel is closed and empty; and no state before the end of main is a
\* deadlock.
C18_PoolTermination ==
    /\ <>(feedIdx > Len(workItems) /\ chanClosed)
    /\ <>(\A w \in Workers : wpc[w] = "exited")
    /\ <>Returned
    /\ [][\A w \in Workers :
            (wpc[w] # "exited" /\ wpc'[w] = "exited")
                => (chanClosed /\ workChan = <<>>)]_vars
    /\ [](mainpc # "done" => ENABLED Next)

\* processConcurrently has returned: the channel is closed, both workers
\* have exited, and the jobs they took ended as an error and a skip.
C18_Witness ==
    /\ Returned
    /\ numThreads >= 2
    /\ Len(workItems) >= 2
    /\ chanClosed
    /\ \A w \in Workers : wpc[w] = "exited"
    /\ \E j, k \in Jobs : outcome[j] = <<"error">> /\ outcome[k] = <<"skipped">>

\* The jobs whose processing has finished: the outcome is recorded.
Finished == { j \in Jobs : Len(outcome[j]) >= 1 }

\* C19. Running stats invariant: in every state of a run the five counters
\* are non-negative, Total is the value the stats were created with (the
\* number of jobs), Success + Errors + Skipped is at most Total, and the sum
\* is the number of jobs whose processing has finished, none of which was
\* not yet received.
C19_RunningStats ==
    /\ stats.Total >= 0
    /\ stats.Success >= 0
    /\ stats.Errors >= 0
    /\ stats.Skipped >= 0
    /\ stats.NonImageFiles >= 0
    /\ stats.Total = Len(workItems)
    /\ stats.Success + stats.Errors + stats.Skipped <= stats.Total
    /\ stats.Success + stats.Errors + stats.Skipped = Cardinality(Finished)
    /\ \A j \in Finished : taken[j] >= 1

\* In the middle of a run: one job is counted, a worker is converting
\* another, and the sum is below Total.
C19_Witness ==
    /\ mainpc = "wait"
    /\ stats.Success + stats.Errors + stats.Skipped = 1
    /\ stats.Total = 2
    /\ \E w \in Workers : wpc[w] = "add"

\* The workers between stats.mu.Lock() and stats.mu.Unlock().
Holders ==
    { w \in Workers : wpc[w] \in {"skip_locked", "failed_locked", "ok_locked"} }

\* The excluded counts convertToCBZ returned for a set of jobs, added up.
RECURSIVE ExcludedSum(_)
ExcludedSum(jobs) ==
    IF jobs = {} THEN 0
    ELSE LET j == CHOOSE k \in jobs : TRUE
             item == workItems[j]
         IN  Selected[item.SourcePath][item.DumbMode].excluded
                 + ExcludedSum(jobs \ {j})

\* C20. Stats mutual exclusion: the counters change only in a step of a
\* worker that holds the mutex, and that step releases it; at most one of
\* the workers and main holds the mutex, and it is locked exactly while one
\* does; the value a holder loaded is still the value of the counters when
\* it stores; the mutex is free once main is done; and no increment is
\* lost: each counter is the number of jobs recorded with that outcome.
C20_StatsMutex ==
    /\ [][stats' # stats =>
            \E w \in Holders : /\ mu
                               /\ wpc'[w] \notin {"skip_locked", "failed_locked",
                                                  "ok_locked"}
                               /\ mu' = FALSE]_vars
    /\ [](/\ Cardinality(Holders) + (IF mainpc = "locked" THEN 1 ELSE 0) <= 1
          /\ mu <=> (Holders # {} \/ mainpc = "locked")
          /\ \A w \in Workers :
               wload[w] # <<>> => (w \in Holders /\ wload[w] = stats)
          /\ mainpc = "done" => ~mu
          /\ stats.Success = Cardinality(Recorded("success"))
          /\ stats.Errors = Cardinality(Recorded("error"))
          /\ stats.Skipped = Cardinality(Recorded("skipped"))
          /\ stats.NonImageFiles = ExcludedSum(Recorded("success")))

\* One worker holds the mutex, about to count a success with excluded
\* files, while another waits for the mutex to count its own job.
C20_Witness ==
    \E w, v \in Workers :
        /\ w # v
        /\ wpc[w] = "ok_locked"
        /\ wcount[w] >= 1
        /\ wload[w] = stats
        /\ wpc[v] \in {"skip", "failed", "ok"}

\* C21. Excluded-file accumulation: once the pool has returned,
\* NonImageFiles is the sum of the excluded counts convertToCBZ found for the
\* jobs recorded as a success; it is 0 when none succeeded, and 0 when the
\* jobs ran in dumb mode.
C21_ExcludedAccumulation ==
    Returned =>
        /\ stats.NonImageFiles = ExcludedSum(Recorded("success"))
        /\ Recorded("success") = {} => stats.NonImageFiles = 0
        /\ (\A j \in Jobs : workItems[j].DumbMode) => stats.NonImageFiles = 0

\* A returned pool: a job with an excluded file succeeded, and a job whose
\* only file was excluded failed and added nothing.
C21_Witness ==
    /\ Returned
    /\ stats.NonImageFiles = 1
    /\ \E j, k \in Jobs :
         /\ outcome[j] = <<"success">>
         /\ Selected[workItems[j].SourcePath][workItems[j].DumbMode].excluded = 1
         /\ outcome[k] = <<"error">>
         /\ ~workItems[k].DumbMode
         /\ Len(SourceTree(workItems[k].SourcePath).files) >= 1
         /\ YieldsNothing(workItems[k])

\* The files of the walked directory that the returned list leaves out, in
\* the order of the walk.
LeftOut == SelectSeq(walkTree, LAMBDA file : file \notin Elements(walkIncluded))

\* C22 as stated. The excluded count of a smart walk is the number of
\* distinct names among the excluded files.
C22_DistinctNames ==
    (~walkDumb /\ walkpc = "returned") =>
        Len(walkExcluded) = Cardinality(Elements(walkExcluded))

\* C22, amended. The excluded count of a smart walk is the number of
\* excluded files: excludedFiles holds the name of every file left out of
\* the list, once for each file, in the order of the walk, so a name that
\* two excluded files share is counted twice.
C22_ExcludedFileCount ==
    (~walkDumb /\ walkpc = "returned") =>
        /\ Len(walkExcluded) = Len(walkTree) - Len(walkIncluded)
        /\ walkExcluded = [i \in 1..Len(LeftOut) |-> LeftOut[i].name]

\* A smart walk has returned after excluding two files named .DS_Store in
\* different directories, beside a file it included.
C22_Witness ==
    /\ ~walkDumb
    /\ walkpc = "returned"
    /\ Len(walkExcluded) = 2
    /\ Cardinality(Elements(walkExcluded)) = 1
    /\ Len(walkIncluded) >= 1

\* The extension of the file's name is on one of isUsefulFile's two lists.
ExtensionAllowlisted(file) ==
    ToLower(Ext(file.name)) \in textExtensions \cup videoExtensions

\* The type detected in the file's content starts with image/, text/ or
\* video/.
SniffedUseful(file) ==
    \E prefix \in usefulMimeTypes :
        HasPrefix(DetectContentType(file.content), prefix)

\* C23. Classification rule precedence: in smart mode every visited file is
\* decided by the first rule that applies, in the order name exclusion,
\* extension allowlist, content sniff, fail-open. A file whose name matches a
\* name rule is excluded and never opened, whatever its extension or content;
\* else a file with an allowlisted extension is included and never opened;
\* else the file is opened, included when it cannot be read, and otherwise
\* included exactly when the detected type starts with image/, text/ or
\* video/.
C23_RulePrecedence ==
    (~walkDumb /\ walkpc \in {"walk", "returned"}) =>
        \A file \in Visited :
            LET included == file \in Elements(walkIncluded)
                opened == file \in walkOpened
            IN  IF shouldExcludeFile(file.name)
                THEN ~included /\ ~opened
                ELSE IF ExtensionAllowlisted(file)
                THEN included /\ ~opened
                ELSE /\ opened
                     /\ IF ~file.readable
                        THEN included
                        ELSE included <=> SniffedUseful(file)

\* A smart walk has returned after all four rules decided a file: an image
\* and a file with an allowlisted extension excluded by their names, an
\* unreadable file included for its extension without being opened, a file
\* included by the sniff, or one included because the sniff could not read it.
C23_Witness ==
    /\ ~walkDumb
    /\ walkpc = "returned"
    /\ \E file \in Visited :
         /\ shouldExcludeFile(file.name)
         /\ SniffedUseful(file)
         /\ file \notin Elements(walkIncluded)
    /\ \E file \in Visited :
         /\ shouldExcludeFile(file.name)
         /\ ExtensionAllowlisted(file)
         /\ file \notin Elements(walkIncluded)
    /\ \E file \in Elements(walkIncluded) :
         /\ ExtensionAllowlisted(file)
         /\ ~file.readable
         /\ file \notin walkOpened
    /\ \E file \in Elements(walkIncluded) \cap walkOpened :
         file.readable => SniffedUseful(file)

\* The name ends in .swp, .swo or ~ (the name is compared in lower case, as
\* shouldExcludeFile compares it).
SwapOrBackupName(fileName) ==
    LET lower == ToLower(fileName)
    IN  \/ Ext(lower) \in { <<".","s","w","p">>, <<".","s","w","o">> }
        \/ /\ Len(lower) >= 1
           /\ lower[Len(lower)] = "~"

\* C24. Swap and backup files are excluded by name: in smart mode every
\* visited file whose name ends in .swp, .swo or ~ is matched by the name
\* rule, is never opened and is not in the included list, whatever its
\* content.
C24_SwapBackupExcluded ==
    (~walkDumb /\ walkpc \in {"walk", "returned"}) =>
        \A file \in Visited :
            SwapOrBackupName(file.name) =>
                /\ shouldExcludeFile(file.name)
                /\ file \notin walkOpened
                /\ file \notin Elements(walkIncluded)

\* C25. A failed job is attempted again on the next run: in a second run
\* over the same job list, every job the first run recorded as an error is,
\* once the second run has recorded it, a job convertToCBZ was called for
\* again, and it is not recorded as skipped.
C25_FailedJobRetried ==
    run = 2 =>
        \A j \in Jobs :
            (prevOutcome[j] = <<"error">> /\ Len(outcome[j]) >= 1) =>
                /\ converted[j] = 1
                /\ outcome[j] # <<"skipped">>

\* The jobs some worker holds: received and not yet recorded.
InProcess == { witem[w] : w \in { v \in Workers : witem[v] # 0 } }

\* C26. Bounded in-flight work: in every state of a run with numThreads
\* workers, at most numThreads jobs are being processed, workChan holds at
\* most numThreads jobs, and no job is held by two workers at once.
C26_BoundedInFlight ==
    /\ Cardinality(InProcess) <= numThreads
    /\ Len(workChan) <= numThreads
    /\ \A v, w \in Workers : (v # w /\ witem[v] # 0) => witem[v] # witem[w]

\* Both bounds are met at once: every worker is processing a job while the
\* channel is full.
C26_Witness ==
    /\ mainpc = "wait"
    /\ \A w \in Workers : witem[w] # 0
    /\ Cardinality(InProcess) = numThreads
    /\ Len(workChan) = numThreads

====
